---- MODULE Spec2Model ----
(***************************************************************************)
(* Porta-Spotty backend (src/backend/app/main.py): the in-memory record    *)
(* store (toilets_db, next_toilet_id), the rating log (ratings_db) and the *)
(* four endpoints create_toilet, list_toilets, get_toilet, add_rating.     *)
(*                                                                         *)
(* Representation                                                          *)
(*  - Optional[T]: None is <<>>, a present value v is <<v>>.               *)
(*  - float avg_cleanliness: sum(scores) / len(scores) is the double       *)
(*    nearest to the rational sum/len; for the small sums and lengths of   *)
(*    the model two such doubles are equal iff the rationals are, so the   *)
(*    value is kept as the fraction <<num, den>> in lowest terms.          *)
(*  - coordinates are whole degrees; distances and radii are metres.       *)
(*  - an HTTPException(status_code = s) and an unhandled exception (500)   *)
(*    are the status of the response; 200 is a normal return.              *)
(***************************************************************************)
EXTENDS Integers, Sequences, FiniteSets, TLC

VARIABLES toilets_db, ratings_db, next_toilet_id, num_creates, request, response

vars == <<toilets_db, ratings_db, next_toilet_id, num_creates, request, response>>

store == <<toilets_db, ratings_db, next_toilet_id>>

\* ---------------------------------------------------------------- bounds
MaxToilets == 2
MaxRatings == 3

\* ------------------------------------------------------------- Optional[T]
None == <<>>
Some(v) == <<v>>

\* ------------------------------------------------------------ HTTP status
OK == 200
InvalidInput == 400
NotFound == 404
ServerError == 500

\* ----------------------------------------------------------------- inputs
\* ToiletCreate bodies (is_free and the seven Optional[bool] amenity flags
\* included).  The same body may be posted more than once.
ToiletCreateInputs ==
  { [name |-> "north", latitude |-> 8, longitude |-> 0, is_free |-> TRUE,
     wheelchair |-> Some(TRUE), running_water |-> None, indoor |-> None,
     open_in_winter |-> None, gender_neutral |-> None, baby_change |-> None,
     menstrual_products |-> None],
    [name |-> "south", latitude |-> -8, longitude |-> 180, is_free |-> FALSE,
     wheelchair |-> Some(FALSE), running_water |-> Some(TRUE), indoor |-> None,
     open_in_winter |-> None, gender_neutral |-> None, baby_change |-> None,
     menstrual_products |-> Some(FALSE)] }

\* path parameter toilet_id: ids never created (0, negative, too large) too
ToiletIds == (-1) .. (MaxToilets + 1)

\* RatingCreate bodies: cleanliness just below, at and just above both ends
\* of the range, with and without a comment
RatingCreateInputs ==
  { [cleanliness |-> 0, comment |-> None],
    [cleanliness |-> 1, comment |-> Some("clean")],
    [cleanliness |-> 5, comment |-> None],
    [cleanliness |-> 6, comment |-> Some("clean")] }

\* query points of list_toilets
Centers == { [lat |-> 0, lng |-> 0], [lat |-> 8, lng |-> 0] }

\* ------------------------------------------------------------- haversine
\* The value a of lines 75-78 as IEEE-754 double arithmetic gives it for
\* latitudes -8, 0, 8 and longitudes 0, 90, 180 (degrees), in parts per 10^9
\* (One is 1.0).  For the antipodal pairs (8, x) and (-8, x +- 180) the
\* rounded sum is 1.0000000000000002, the one value above 1.0 that occurs:
\* it is kept as One + 1.  Keyed by <<lat1, lat2, lon2 - lon1>>: phi1, phi2,
\* dphi and dlambda depend on nothing else.
One == 1000000000

HaversineA ==
  <<-8, -8, -180>> :> 980630848 @@ <<-8, -8, -90>> :> 490315424 @@
  <<-8, -8, 0>> :> 0 @@ <<-8, -8, 90>> :> 490315424 @@
  <<-8, -8, 180>> :> 980630848 @@ <<-8, 0, -180>> :> 995134034 @@
  <<-8, 0, -90>> :> 500000000 @@ <<-8, 0, 0>> :> 4865966 @@
  <<-8, 0, 90>> :> 500000000 @@ <<-8, 0, 180>> :> 995134034 @@
  <<-8, 8, -180>> :> 1000000001 @@ <<-8, 8, -90>> :> 509684576 @@
  <<-8, 8, 0>> :> 19369152 @@ <<-8, 8, 90>> :> 509684576 @@
  <<-8, 8, 180>> :> 1000000001 @@ <<0, -8, -180>> :> 995134034 @@
  <<0, -8, -90>> :> 500000000 @@ <<0, -8, 0>> :> 4865966 @@
  <<0, -8, 90>> :> 500000000 @@ <<0, -8, 180>> :> 995134034 @@
  <<0, 0, -180>> :> 1000000000 @@ <<0, 0, -90>> :> 500000000 @@
  <<0, 0, 0>> :> 0 @@ <<0, 0, 90>> :> 500000000 @@
  <<0, 0, 180>> :> 1000000000 @@ <<0, 8, -180>> :> 995134034 @@
  <<0, 8, -90>> :> 500000000 @@ <<0, 8, 0>> :> 4865966 @@
  <<0, 8, 90>> :> 500000000 @@ <<0, 8, 180>> :> 995134034 @@
  <<8, -8, -180>> :> 1000000001 @@ <<8, -8, -90>> :> 509684576 @@
  <<8, -8, 0>> :> 19369152 @@ <<8, -8, 90>> :> 509684576 @@
  <<8, -8, 180>> :> 1000000001 @@ <<8, 0, -180>> :> 995134034 @@
  <<8, 0, -90>> :> 500000000 @@ <<8, 0, 0>> :> 4865966 @@
  <<8, 0, 90>> :> 500000000 @@ <<8, 0, 180>> :> 995134034 @@
  <<8, 8, -180>> :> 980630848 @@ <<8, 8, -90>> :> 490315424 @@
  <<8, 8, 0>> :> 0 @@ <<8, 8, 90>> :> 490315424 @@
  <<8, 8, 180>> :> 980630848

\* R * 2 * atan2(sqrt(a), sqrt(1 - a)) of lines 79-80 in metres, for the
\* values of a that occur
ArcMetres ==
  0 :> 0 @@ 4865966 :> 889559 @@ 19369152 :> 1779119 @@
  490315424 :> 9884135 @@ 500000000 :> 10007543 @@ 509684576 :> 10130952 @@
  980630848 :> 18235968 @@ 995134034 :> 19125527 @@ 1000000000 :> 20015087

\* math.sqrt(1 - a) raises ValueError (math domain error) when a > 1.0
MathDomainError == -1

\* mutant: dlambda = radians(lon2), the "- lon1" is missing
haversine_km_dlambda_lon2(lat1, lon1, lat2, lon2) ==
  LET a == HaversineA[<<lat1, lat2, lon2>>]
  IN  IF One - a < 0 THEN MathDomainError ELSE ArcMetres[a]

haversine_km(lat1, lon1, lat2, lon2) ==
  LET a == HaversineA[<<lat1, lat2, lon2 - lon1>>]
  IN  IF One - a < 0 THEN MathDomainError ELSE ArcMetres[a]

\* radii of list_toilets, in metres: the distance from (0,0) to (8,0)
\* exactly, one metre less, and a radius larger than any distance on the
\* sphere
BoundaryRadius == haversine_km(0, 0, 8, 0)
Radii == {BoundaryRadius - 1, BoundaryRadius, 30 * 1000 * 1000}

\* ------------------------------------------------------------ arithmetic
RECURSIVE Gcd(_, _)
Gcd(m, n) == IF n = 0 THEN m ELSE Gcd(n, m % n)

RECURSIVE sum(_)
sum(scores) == IF scores = <<>> THEN 0 ELSE Head(scores) + sum(Tail(scores))

\* mutant: floor division sum(scores) // len(scores)
TrueDiv_floor(s, n) == <<s \div n, 1>>

\* mutant: the division is missing, the sum is stored
TrueDiv_no_division(s, n) == <<s, 1>>

\* the float sum(scores) / len(scores), len(scores) > 0
TrueDiv(s, n) == <<s \div Gcd(s, n), n \div Gcd(s, n)>>

\* ------------------------------------------------------------ list scans
\* index of the first element of db whose id is toilet_id, 0 when the loop
\* "for t in toilets_db: if t.id == toilet_id" falls through
FirstWithId(db, toilet_id) ==
  IF \E i \in 1..Len(db) : db[i].id = toilet_id
  THEN CHOOSE i \in 1..Len(db) :
         /\ db[i].id = toilet_id
         /\ \A j \in 1..(i - 1) : db[j].id # toilet_id
  ELSE 0

RECURSIVE Scores(_, _)
Scores(log, toilet_id) ==
  IF log = <<>> THEN <<>>
  ELSE IF Head(log).toilet_id = toilet_id
       THEN <<Head(log).cleanliness>> \o Scores(Tail(log), toilet_id)
       ELSE Scores(Tail(log), toilet_id)

\* mutant: the count is the length of the whole log
recompute_rating_stats_whole_log(db, log, toilet_id) ==
  LET scores == Scores(log, toilet_id)
      i == FirstWithId(db, toilet_id)
  IN  IF i = 0 THEN db
      ELSE IF scores # <<>>
           THEN [db EXCEPT ![i].avg_cleanliness = Some(TrueDiv(sum(scores), Len(scores))),
                           ![i].rating_count = Len(log)]
           ELSE [db EXCEPT ![i].avg_cleanliness = None,
                           ![i].rating_count = 0]

\* mutant: the test t.id == toilet_id is missing, every record is written
recompute_rating_stats_every_record(db, log, toilet_id) ==
  LET scores == Scores(log, toilet_id)
  IN  [i \in 1..Len(db) |->
         IF scores # <<>>
         THEN [db[i] EXCEPT !.avg_cleanliness = Some(TrueDiv(sum(scores), Len(scores))),
                            !.rating_count = Len(scores)]
         ELSE [db[i] EXCEPT !.avg_cleanliness = None, !.rating_count = 0]]

\* toilets_db after recompute_rating_stats(toilet_id) has run over log
recompute_rating_stats(db, log, toilet_id) ==
  LET scores == Scores(log, toilet_id)
      i == FirstWithId(db, toilet_id)
  IN  IF i = 0 THEN db
      ELSE IF scores # <<>>
           THEN [db EXCEPT ![i].avg_cleanliness = Some(TrueDiv(sum(scores), Len(scores))),
                           ![i].rating_count = Len(scores)]
           ELSE [db EXCEPT ![i].avg_cleanliness = None,
                           ![i].rating_count = 0]

\* ------------------------------------------------------------------ Init
Init ==
  /\ toilets_db = <<>>
  /\ ratings_db = <<>>
  /\ next_toilet_id = 1
  /\ num_creates = 0
  /\ request = [op |-> "none"]
  /\ response = [status |-> OK, body |-> <<>>]

\* ------------------------------------------------------------- endpoints
\* GET /
root ==
  /\ request' = [op |-> "root"]
  /\ response' = [status |-> OK, body |-> <<>>]
  /\ UNCHANGED <<toilets_db, ratings_db, next_toilet_id, num_creates>>

\* mutant: the id is the position in the list, counted from 0
NewToilet_zero_based(toilet, id) ==
  [id |-> id - 1, name |-> toilet.name, latitude |-> toilet.latitude,
   longitude |-> toilet.longitude, is_free |-> toilet.is_free,
   wheelchair |-> toilet.wheelchair, running_water |-> toilet.running_water,
   indoor |-> toilet.indoor, open_in_winter |-> toilet.open_in_winter,
   gender_neutral |-> toilet.gender_neutral, baby_change |-> toilet.baby_change,
   menstrual_products |-> toilet.menstrual_products,
   avg_cleanliness |-> None, rating_count |-> 0]

NewToilet(toilet, id) ==
  [id |-> id, name |-> toilet.name, latitude |-> toilet.latitude,
   longitude |-> toilet.longitude, is_free |-> toilet.is_free,
   wheelchair |-> toilet.wheelchair, running_water |-> toilet.running_water,
   indoor |-> toilet.indoor, open_in_winter |-> toilet.open_in_winter,
   gender_neutral |-> toilet.gender_neutral, baby_change |-> toilet.baby_change,
   menstrual_products |-> toilet.menstrual_products,
   avg_cleanliness |-> None, rating_count |-> 0]

\* mutant: next_toilet_id is not advanced
create_toilet_no_increment(toilet) ==
  /\ Len(toilets_db) < MaxToilets
  /\ LET new == NewToilet(toilet, next_toilet_id)
     IN  /\ toilets_db' = Append(toilets_db, new)
         /\ next_toilet_id' = next_toilet_id
         /\ response' = [status |-> OK, body |-> <<new>>]
  /\ num_creates' = num_creates + 1
  /\ request' = [op |-> "create_toilet", toilet |-> toilet]
  /\ UNCHANGED ratings_db

\* mutant: a body whose name and coordinates are already stored is refused
create_toilet_reject_duplicate(toilet) ==
  /\ Len(toilets_db) < MaxToilets
  /\ LET new == NewToilet(toilet, next_toilet_id)
         dup == \E i \in 1..Len(toilets_db) :
                  /\ toilets_db[i].name = toilet.name
                  /\ toilets_db[i].latitude = toilet.latitude
                  /\ toilets_db[i].longitude = toilet.longitude
     IN  IF dup
         THEN /\ response' = [status |-> InvalidInput, body |-> <<>>]
              /\ UNCHANGED <<toilets_db, next_toilet_id>>
         ELSE /\ toilets_db' = Append(toilets_db, new)
              /\ next_toilet_id' = next_toilet_id + 1
              /\ response' = [status |-> OK, body |-> <<new>>]
  /\ num_creates' = num_creates + 1
  /\ request' = [op |-> "create_toilet", toilet |-> toilet]
  /\ UNCHANGED ratings_db

\* POST /toilets
create_toilet(toilet) ==
  /\ Len(toilets_db) < MaxToilets
  /\ LET new == NewToilet(toilet, next_toilet_id)
     IN  /\ toilets_db' = Append(toilets_db, new)
         /\ next_toilet_id' = next_toilet_id + 1
         /\ response' = [status |-> OK, body |-> <<new>>]
  /\ num_creates' = num_creates + 1
  /\ request' = [op |-> "create_toilet", toilet |-> toilet]
  /\ UNCHANGED ratings_db

\* the results list of list_toilets over the records db[1..n]
RECURSIVE Within(_, _, _, _)
Within(db, lat, lng, radius_km) ==
  IF db = <<>> THEN <<>>
  ELSE LET t == Head(db)
           d == haversine_km(lat, lng, t.latitude, t.longitude)
       IN  IF d <= radius_km
           THEN <<t>> \o Within(Tail(db), lat, lng, radius_km)
           ELSE Within(Tail(db), lat, lng, radius_km)

\* haversine_km raises for some record of db
Raises(db, lat, lng) ==
  \E i \in 1..Len(db) :
    haversine_km(lat, lng, db[i].latitude, db[i].longitude) = MathDomainError

RECURSIVE Reverse(_)
Reverse(s) == IF s = <<>> THEN <<>> ELSE Append(Reverse(Tail(s)), Head(s))

\* mutant: results.insert(0, t) instead of results.append(t)
list_toilets_insert_front(lat, lng, radius_km) ==
  /\ request' = [op |-> "list_toilets", lat |-> lat, lng |-> lng,
                 radius_km |-> radius_km]
  /\ response' = IF Raises(toilets_db, lat, lng)
                 THEN [status |-> ServerError, body |-> <<>>]
                 ELSE [status |-> OK,
                       body |-> Reverse(Within(toilets_db, lat, lng, radius_km))]
  /\ UNCHANGED <<toilets_db, ratings_db, next_toilet_id, num_creates>>

RECURSIVE InsertByDistance(_, _, _, _)
InsertByDistance(t, sorted, lat, lng) ==
  IF sorted = <<>> THEN <<t>>
  ELSE IF haversine_km(lat, lng, t.latitude, t.longitude)
            < haversine_km(lat, lng, Head(sorted).latitude, Head(sorted).longitude)
       THEN <<t>> \o sorted
       ELSE <<Head(sorted)>> \o InsertByDistance(t, Tail(sorted), lat, lng)

RECURSIVE SortByDistance(_, _, _)
SortByDistance(db, lat, lng) ==
  IF db = <<>> THEN <<>>
  ELSE InsertByDistance(db[Len(db)],
                        SortByDistance(SubSeq(db, 1, Len(db) - 1), lat, lng),
                        lat, lng)

\* mutant: toilets_db.sort(key = distance) in place before the scan
list_toilets_sort_in_place(lat, lng, radius_km) ==
  /\ request' = [op |-> "list_toilets", lat |-> lat, lng |-> lng,
                 radius_km |-> radius_km]
  /\ IF Raises(toilets_db, lat, lng)
     THEN /\ response' = [status |-> ServerError, body |-> <<>>]
          /\ UNCHANGED toilets_db
     ELSE /\ toilets_db' = SortByDistance(toilets_db, lat, lng)
          /\ response' = [status |-> OK,
                          body |-> Within(toilets_db', lat, lng, radius_km)]
  /\ UNCHANGED <<ratings_db, next_toilet_id, num_creates>>

\* GET /toilets
list_toilets(lat, lng, radius_km) ==
  /\ request' = [op |-> "list_toilets", lat |-> lat, lng |-> lng,
                 radius_km |-> radius_km]
  /\ response' = IF Raises(toilets_db, lat, lng)
                 THEN [status |-> ServerError, body |-> <<>>]
                 ELSE [status |-> OK,
                       body |-> Within(toilets_db, lat, lng, radius_km)]
  /\ UNCHANGED <<toilets_db, ratings_db, next_toilet_id, num_creates>>

\* mutant: the record is fetched by position, toilets_db[toilet_id - 1],
\* with Python's negative indices counting from the end
get_toilet_by_position(toilet_id) ==
  /\ request' = [op |-> "get_toilet", toilet_id |-> toilet_id]
  /\ LET n == Len(toilets_db)
         k == toilet_id - 1
     IN  response' = IF 0 <= k /\ k < n
                     THEN [status |-> OK, body |-> <<toilets_db[k + 1]>>]
                     ELSE IF -n <= k /\ k < 0
                     THEN [status |-> OK, body |-> <<toilets_db[n + k + 1]>>]
                     ELSE [status |-> NotFound, body |-> <<>>]
  /\ UNCHANGED <<toilets_db, ratings_db, next_toilet_id, num_creates>>

\* GET /toilets/{toilet_id}
get_toilet(toilet_id) ==
  /\ request' = [op |-> "get_toilet", toilet_id |-> toilet_id]
  /\ LET i == FirstWithId(toilets_db, toilet_id)
     IN  response' = IF i # 0
                     THEN [status |-> OK, body |-> <<toilets_db[i]>>]
                     ELSE [status |-> NotFound, body |-> <<>>]
  /\ UNCHANGED <<toilets_db, ratings_db, next_toilet_id, num_creates>>

\* mutant: 0 <= rating.cleanliness <= 5
ValidCleanliness_from_zero(c) == 0 <= c /\ c <= 5

\* mutant: 1 <= rating.cleanliness <= 6
ValidCleanliness_to_six(c) == 1 <= c /\ c <= 6

\* 1 <= rating.cleanliness <= 5
ValidCleanliness(c) == 1 <= c /\ c <= 5

\* mutant: the comment is not stored
RatingEvent_no_comment(toilet_id, rating) ==
  [toilet_id |-> toilet_id, cleanliness |-> rating.cleanliness, comment |-> None]

\* the dict appended to ratings_db
RatingEvent(toilet_id, rating) ==
  [toilet_id |-> toilet_id, cleanliness |-> rating.cleanliness,
   comment |-> rating.comment]

\* mutant: the event is appended before toilet_id is resolved
add_rating_append_first(toilet_id, rating) ==
  /\ request' = [op |-> "add_rating", toilet_id |-> toilet_id, rating |-> rating]
  /\ IF ~ValidCleanliness(rating.cleanliness)
     THEN /\ response' = [status |-> InvalidInput, body |-> <<>>]
          /\ UNCHANGED <<toilets_db, ratings_db>>
     ELSE LET i == FirstWithId(toilets_db, toilet_id)
          IN  /\ Len(ratings_db) < MaxRatings
              /\ ratings_db' = Append(ratings_db, RatingEvent(toilet_id, rating))
              /\ IF i = 0
                 THEN /\ response' = [status |-> NotFound, body |-> <<>>]
                      /\ UNCHANGED toilets_db
                 ELSE /\ toilets_db' = recompute_rating_stats(toilets_db, ratings_db', toilet_id)
                      /\ response' = [status |-> OK, body |-> <<toilets_db'[i]>>]
  /\ UNCHANGED <<next_toilet_id, num_creates>>

\* mutant: toilet_id is resolved before the cleanliness range is tested
add_rating_resolve_first(toilet_id, rating) ==
  /\ request' = [op |-> "add_rating", toilet_id |-> toilet_id, rating |-> rating]
  /\ LET i == FirstWithId(toilets_db, toilet_id)
     IN  IF i = 0
         THEN /\ response' = [status |-> NotFound, body |-> <<>>]
              /\ UNCHANGED <<toilets_db, ratings_db>>
         ELSE IF ~ValidCleanliness(rating.cleanliness)
         THEN /\ response' = [status |-> InvalidInput, body |-> <<>>]
              /\ UNCHANGED <<toilets_db, ratings_db>>
         ELSE /\ Len(ratings_db) < MaxRatings
              /\ ratings_db' = Append(ratings_db, RatingEvent(toilet_id, rating))
              /\ toilets_db' = recompute_rating_stats(toilets_db, ratings_db', toilet_id)
              /\ response' = [status |-> OK, body |-> <<toilets_db'[i]>>]
  /\ UNCHANGED <<next_toilet_id, num_creates>>

\* POST /toilets/{toilet_id}/ratings
add_rating(toilet_id, rating) ==
  /\ request' = [op |-> "add_rating", toilet_id |-> toilet_id, rating |-> rating]
  /\ IF ~ValidCleanliness(rating.cleanliness)
     THEN /\ response' = [status |-> InvalidInput, body |-> <<>>]
          /\ UNCHANGED <<toilets_db, ratings_db>>
     ELSE LET i == FirstWithId(toilets_db, toilet_id)
          IN  IF i = 0
              THEN /\ response' = [status |-> NotFound, body |-> <<>>]
                   /\ UNCHANGED <<toilets_db, ratings_db>>
              ELSE /\ Len(ratings_db) < MaxRatings
                   /\ ratings_db' = Append(ratings_db, RatingEvent(toilet_id, rating))
                   /\ toilets_db' = recompute_rating_stats(toilets_db, ratings_db', toilet_id)
                   /\ response' = [status |-> OK, body |-> <<toilets_db'[i]>>]
  /\ UNCHANGED <<next_toilet_id, num_creates>>

Next ==
  \/ root
  \/ \E toilet \in ToiletCreateInputs : create_toilet(toilet)
  \/ \E c \in Centers, r \in Radii : list_toilets(c.lat, c.lng, r)
  \/ \E id \in ToiletIds : get_toilet(id)
  \/ \E id \in ToiletIds, rating \in RatingCreateInputs : add_rating(id, rating)

Spec == Init /\ [][Next]_vars

\* ------------------------------------------- haversine_km on its own
\* The distance function applied to a pair of points and then to the same
\* pair swapped; response.body collects the two results.
Latitudes == {-8, 0, 8}
Longitudes == {0, 90, 180}

haversine_call(lat1, lon1, lat2, lon2) ==
  LET d == haversine_km(lat1, lon1, lat2, lon2)
  IN  /\ request' = [op |-> "haversine_km", lat1 |-> lat1, lon1 |-> lon1,
                     lat2 |-> lat2, lon2 |-> lon2]
      /\ response' = [status |-> IF d = MathDomainError THEN ServerError ELSE OK,
                      body |-> <<d>>]
      /\ UNCHANGED <<toilets_db, ratings_db, next_toilet_id, num_creates>>

haversine_call_swapped ==
  /\ request.op = "haversine_km"
  /\ LET d == haversine_km(request.lat2, request.lon2, request.lat1, request.lon1)
     IN  /\ request' = [request EXCEPT !.op = "haversine_km swapped"]
         /\ response' = [status |-> IF d = MathDomainError THEN ServerError ELSE OK,
                         body |-> Append(response.body, d)]
  /\ UNCHANGED <<toilets_db, ratings_db, next_toilet_id, num_creates>>

NextDistance ==
  \/ \E lat1 \in Latitudes, lon1 \in Longitudes,
        lat2 \in Latitudes, lon2 \in Longitudes :
          haversine_call(lat1, lon1, lat2, lon2)
  \/ haversine_call_swapped

SpecDistance == Init /\ [][NextDistance]_vars

\* ------------------------------------------------- concurrent requests
\* The endpoints are plain "def" functions, which FastAPI runs on the
\* threads of a pool: two requests can be inside the same function at once,
\* and the interpreter may switch threads between any two reads or writes of
\* the globals.  In these specifications request[t] is the call of thread t
\* with its position pc and its locals, response[t] is what it returned.
Threads == {"t1", "t2"}

NoStatus == 0
NoResponse == [status |-> NoStatus, body |-> <<>>]

AllDone == \A t \in Threads : request[t].pc = "done"

\* the store after the creates of the bodies in the sequence, one at a time
RECURSIVE Created(_, _)
Created(bodies, first_id) ==
  IF bodies = <<>> THEN <<>>
  ELSE <<NewToilet(Head(bodies), first_id)>> \o Created(Tail(bodies), first_id + 1)

\* two POST /toilets in flight, on a store of zero or one record
InitConcurrentCreate ==
  /\ \E bodies \in {<<>>} \cup {<<b>> : b \in ToiletCreateInputs} :
       /\ toilets_db = Created(bodies, 1)
       /\ next_toilet_id = Len(bodies) + 1
       /\ num_creates = Len(bodies)
  /\ ratings_db = <<>>
  /\ request \in [Threads -> {[op |-> "create_toilet", toilet |-> b,
                               pc |-> "construct", new |-> None, tmp |-> 0] :
                              b \in ToiletCreateInputs}]
  /\ response = [t \in Threads |-> NoResponse]

\* lines 110-125: new = Toilet(id = next_toilet_id, ...)
create_construct(t) ==
  /\ request[t].pc = "construct"
  /\ request' = [request EXCEPT
                   ![t].new = Some(NewToilet(request[t].toilet, next_toilet_id)),
                   ![t].pc = "append"]
  /\ UNCHANGED <<toilets_db, ratings_db, next_toilet_id, num_creates, response>>

\* line 127: toilets_db.append(new)
create_append(t) ==
  /\ request[t].pc = "append"
  /\ toilets_db' = Append(toilets_db, request[t].new[1])
  /\ request' = [request EXCEPT ![t].pc = "load"]
  /\ UNCHANGED <<ratings_db, next_toilet_id, num_creates, response>>

\* line 128, next_toilet_id += 1: the global is read ...
create_load(t) ==
  /\ request[t].pc = "load"
  /\ request' = [request EXCEPT ![t].tmp = next_toilet_id, ![t].pc = "store"]
  /\ UNCHANGED <<toilets_db, ratings_db, next_toilet_id, num_creates, response>>

\* ... and the sum is written back
create_store(t) ==
  /\ request[t].pc = "store"
  /\ next_toilet_id' = request[t].tmp + 1
  /\ request' = [request EXCEPT ![t].pc = "return"]
  /\ UNCHANGED <<toilets_db, ratings_db, num_creates, response>>

\* line 129: return new
create_return(t) ==
  /\ request[t].pc = "return"
  /\ response' = [response EXCEPT ![t] = [status |-> OK, body |-> request[t].new]]
  /\ num_creates' = num_creates + 1
  /\ request' = [request EXCEPT ![t].pc = "done"]
  /\ UNCHANGED <<toilets_db, ratings_db, next_toilet_id>>

NextConcurrentCreate ==
  \E t \in Threads :
    \/ create_construct(t)
    \/ create_append(t)
    \/ create_load(t)
    \/ create_store(t)
    \/ create_return(t)

SpecConcurrentCreate == InitConcurrentCreate /\ [][NextConcurrentCreate]_vars

\* two POST /toilets/{toilet_id}/ratings in flight, on a store of one record
\* that has no rating or one
InitConcurrentSubmit ==
  /\ \E b \in ToiletCreateInputs,
        log \in {<<>>} \cup {<<RatingEvent(1, r)>> :
                               r \in {x \in RatingCreateInputs :
                                        ValidCleanliness(x.cleanliness)}} :
       /\ ratings_db = log
       /\ toilets_db = recompute_rating_stats(Created(<<b>>, 1), log, 1)
  /\ next_toilet_id = 2
  /\ num_creates = 1
  /\ request \in [Threads -> {[op |-> "add_rating", toilet_id |-> id, rating |-> r,
                               pc |-> "validate", i |-> 0, scores |-> <<>>] :
                              id \in {1, 2}, r \in RatingCreateInputs}]
  /\ response = [t \in Threads |-> NoResponse]

\* lines 159-160: the range test
rate_validate(t) ==
  /\ request[t].pc = "validate"
  /\ IF ~ValidCleanliness(request[t].rating.cleanliness)
     THEN /\ response' = [response EXCEPT
                            ![t] = [status |-> InvalidInput, body |-> <<>>]]
          /\ request' = [request EXCEPT ![t].pc = "done"]
     ELSE /\ request' = [request EXCEPT ![t].pc = "lookup"]
          /\ UNCHANGED response
  /\ UNCHANGED <<toilets_db, ratings_db, next_toilet_id, num_creates>>

\* lines 162-163 and 174: the loop that finds t, or falls through to the 404
rate_lookup(t) ==
  /\ request[t].pc = "lookup"
  /\ LET i == FirstWithId(toilets_db, request[t].toilet_id)
     IN  IF i = 0
         THEN /\ response' = [response EXCEPT
                                ![t] = [status |-> NotFound, body |-> <<>>]]
              /\ request' = [request EXCEPT ![t].pc = "done"]
         ELSE /\ request' = [request EXCEPT ![t].i = i, ![t].pc = "append"]
              /\ UNCHANGED response
  /\ UNCHANGED <<toilets_db, ratings_db, next_toilet_id, num_creates>>

\* lines 164-170: ratings_db.append(...)
rate_append(t) ==
  /\ request[t].pc = "append"
  /\ ratings_db' = Append(ratings_db,
                          RatingEvent(request[t].toilet_id, request[t].rating))
  /\ request' = [request EXCEPT ![t].pc = "scores"]
  /\ UNCHANGED <<toilets_db, next_toilet_id, num_creates, response>>

\* line 85: scores = [... for r in ratings_db if ...]
rate_scores(t) ==
  /\ request[t].pc = "scores"
  /\ request' = [request EXCEPT
                   ![t].scores = Scores(ratings_db, request[t].toilet_id),
                   ![t].pc = "avg"]
  /\ UNCHANGED <<toilets_db, ratings_db, next_toilet_id, num_creates, response>>

\* lines 87-90 and 93: the record is found and t.avg_cleanliness is written
rate_avg(t) ==
  /\ request[t].pc = "avg"
  /\ LET j == FirstWithId(toilets_db, request[t].toilet_id)
         scores == request[t].scores
     IN  toilets_db' =
           IF j = 0 THEN toilets_db
           ELSE IF scores # <<>>
                THEN [toilets_db EXCEPT ![j].avg_cleanliness =
                                          Some(TrueDiv(sum(scores), Len(scores)))]
                ELSE [toilets_db EXCEPT ![j].avg_cleanliness = None]
  /\ request' = [request EXCEPT ![t].pc = "count"]
  /\ UNCHANGED <<ratings_db, next_toilet_id, num_creates, response>>

\* lines 91 and 94: t.rating_count is written
rate_count(t) ==
  /\ request[t].pc = "count"
  /\ LET j == FirstWithId(toilets_db, request[t].toilet_id)
         scores == request[t].scores
     IN  toilets_db' =
           IF j = 0 THEN toilets_db
           ELSE [toilets_db EXCEPT ![j].rating_count = Len(scores)]
  /\ request' = [request EXCEPT ![t].pc = "return"]
  /\ UNCHANGED <<ratings_db, next_toilet_id, num_creates, response>>

\* line 172: return t
rate_return(t) ==
  /\ request[t].pc = "return"
  /\ response' = [response EXCEPT
                    ![t] = [status |-> OK, body |-> <<toilets_db[request[t].i]>>]]
  /\ request' = [request EXCEPT ![t].pc = "done"]
  /\ UNCHANGED <<toilets_db, ratings_db, next_toilet_id, num_creates>>

NextConcurrentSubmit ==
  \E t \in Threads :
    \/ rate_validate(t)
    \/ rate_lookup(t)
    \/ rate_append(t)
    \/ rate_scores(t)
    \/ rate_avg(t)
    \/ rate_count(t)
    \/ rate_return(t)

SpecConcurrentSubmit == InitConcurrentSubmit /\ [][NextConcurrentSubmit]_vars

\* ------------------------------------------------------ stating the claims
\* the step being taken is a call of op
Called(op) == request'.op = op

Ids(db) == {db[i].id : i \in 1..Len(db)}

\* indices of the events of log for the record id, their number and the sum
\* of their cleanliness values
EventsOf(log, id) == {k \in 1..Len(log) : log[k].toilet_id = id}

RECURSIVE SumOver(_, _)
SumOver(log, K) ==
  IF K = {} THEN 0
  ELSE LET k == CHOOSE x \in K : TRUE
       IN  log[k].cleanliness + SumOver(log, K \ {k})

\* avg is the mean total / n (n > 0)
IsMean(avg, total, n) == avg # None /\ avg[1][1] * n = avg[1][2] * total

\* C1: in every state, for every record of the store, rating_count is the
\* number of events of the log for that record, avg_cleanliness is null when
\* there are none and otherwise their arithmetic mean.
C1_StatsMatchLog ==
  \A i \in 1..Len(toilets_db) :
    LET R == toilets_db[i]
        K == EventsOf(ratings_db, R.id)
    IN  /\ R.rating_count = Cardinality(K)
        /\ (K = {} => R.avg_cleanliness = None)
        /\ (K # {} => IsMean(R.avg_cleanliness, SumOver(ratings_db, K), Cardinality(K)))

\* two records, one rated three times with mean 7/3, the other never rated
C1_Witness ==
  /\ Len(toilets_db) = 2
  /\ \E i, j \in 1..2 :
       /\ toilets_db[i].rating_count = 3
       /\ toilets_db[i].avg_cleanliness = Some(<<7, 3>>)
       /\ toilets_db[j].rating_count = 0
       /\ toilets_db[j].avg_cleanliness = None

\* C2: the k-th create returns a record with id k, whatever other calls were
\* made in between.
C2_KthCreateReturnsK ==
  request.op = "create_toilet" =>
    /\ response.status = OK
    /\ Len(response.body) = 1
    /\ response.body[1].id = num_creates

\* the second create, made after a rating was stored
C2_Witness ==
  /\ request.op = "create_toilet"
  /\ num_creates = 2
  /\ response.body[1].id = 2
  /\ Len(ratings_db) > 0

\* C3: a submit with cleanliness outside 1..5 fails with InvalidInput, appends
\* no event and changes no record.
C3_OutOfRangeRejected ==
  [][ (Called("add_rating") /\ request'.rating.cleanliness \notin 1..5) =>
        /\ response'.status = InvalidInput
        /\ ratings_db' = ratings_db
        /\ toilets_db' = toilets_db ]_vars

\* cleanliness 6 was refused for an existing record that has ratings
C3_Witness ==
  /\ request.op = "add_rating"
  /\ request.rating.cleanliness = 6
  /\ response.status = InvalidInput
  /\ \E i \in 1..Len(toilets_db) :
       toilets_db[i].id = request.toilet_id /\ toilets_db[i].rating_count > 0

\* C4: a submit with cleanliness in 1..5 for an id that no record has fails
\* with NotFound and leaves the log, the store and the id counter unchanged.
C4_UnknownIdRejected ==
  [][ (/\ Called("add_rating")
       /\ request'.rating.cleanliness \in 1..5
       /\ request'.toilet_id \notin Ids(toilets_db)) =>
        /\ response'.status = NotFound
        /\ store' = store ]_vars

\* a valid rating was refused for an id above those of a non-empty store
C4_Witness ==
  /\ request.op = "add_rating"
  /\ request.rating.cleanliness \in 1..5
  /\ toilets_db # <<>>
  /\ request.toilet_id > 0
  /\ request.toilet_id \notin Ids(toilets_db)
  /\ response.status = NotFound

\* the one record of db with this id
RecordOf(db, id) == db[CHOOSE i \in 1..Len(db) : db[i].id = id]

\* C5: a successful submit(id, c) returns the record with that id as it
\* stands after the call; its rating_count is one more than before and its
\* avg_cleanliness is the mean of the values submitted to it so far, c
\* included.
C5_SubmitReturnsUpdated ==
  [][ (Called("add_rating") /\ response'.status = OK) =>
        LET id == request'.toilet_id
            c == request'.rating.cleanliness
            ret == response'.body[1]
            old == RecordOf(toilets_db, id)
            oldSum == IF old.avg_cleanliness = None THEN 0
                      ELSE (old.avg_cleanliness[1][1] * old.rating_count)
                             \div old.avg_cleanliness[1][2]
        IN  /\ ret.id = id
            /\ ret = RecordOf(toilets_db', id)
            /\ ret.rating_count = old.rating_count + 1
            /\ IsMean(ret.avg_cleanliness, oldSum + c, old.rating_count + 1)
            /\ IsMean(ret.avg_cleanliness,
                      SumOver(ratings_db', EventsOf(ratings_db', id)),
                      Cardinality(EventsOf(ratings_db', id))) ]_vars

\* the third rating of a record, giving the mean 7/3
C5_Witness ==
  /\ request.op = "add_rating"
  /\ response.status = OK
  /\ response.body[1].rating_count = 3
  /\ response.body[1].avg_cleanliness = Some(<<7, 3>>)

\* C6: get(id) returns the stored record with that id when there is one and
\* fails with NotFound when there is none.
C6_GetFindsOrNotFound ==
  request.op = "get_toilet" =>
    IF request.toilet_id \in Ids(toilets_db)
    THEN /\ response.status = OK
         /\ response.body = <<RecordOf(toilets_db, request.toilet_id)>>
    ELSE response.status = NotFound /\ response.body = <<>>

\* get of id 0 on a store of two records
C6_Witness ==
  /\ request.op = "get_toilet"
  /\ request.toilet_id = 0
  /\ Len(toilets_db) = 2
  /\ response.status = NotFound

\* great-circle distance in metres: the antipode is half the circumference
\* of the sphere of radius 6371.0 km away
HalfCircumference == ArcMetres[One]
GreatCircle(lat1, lon1, lat2, lon2) ==
  IF haversine_km(lat1, lon1, lat2, lon2) = MathDomainError
  THEN HalfCircumference
  ELSE haversine_km(lat1, lon1, lat2, lon2)

\* C7: list_within(center, radius) returns exactly the stored records whose
\* distance from the center is at most radius.
C7_ListIsExactlyWithin ==
  request.op = "list_toilets" =>
    /\ response.status = OK
    /\ \A i \in 1..Len(toilets_db) :
         (\E k \in 1..Len(response.body) : response.body[k] = toilets_db[i])
           <=> GreatCircle(request.lat, request.lng, toilets_db[i].latitude,
                           toilets_db[i].longitude) <= request.radius_km
    /\ \A k \in 1..Len(response.body) :
         \E i \in 1..Len(toilets_db) : response.body[k] = toilets_db[i]

\* positions in the store of the records of a result
Position(db, t) == CHOOSE i \in 1..Len(db) : db[i] = t

\* C8: the result of list_within is a subsequence of the store in insertion
\* order: records created earlier come first, none comes twice.
C8_ListInInsertionOrder ==
  (request.op = "list_toilets" /\ response.status = OK) =>
    /\ \A k \in 1..Len(response.body) :
         \E i \in 1..Len(toilets_db) : response.body[k] = toilets_db[i]
    /\ \A k, l \in 1..Len(response.body) :
         k < l => /\ response.body[k].id < response.body[l].id
                  /\ Position(toilets_db, response.body[k])
                       < Position(toilets_db, response.body[l])

\* two records returned, the first of them farther from the center
C8_Witness ==
  /\ request.op = "list_toilets"
  /\ response.status = OK
  /\ Len(response.body) = 2
  /\ haversine_km(request.lat, request.lng, response.body[1].latitude,
                  response.body[1].longitude)
       > haversine_km(request.lat, request.lng, response.body[2].latitude,
                      response.body[2].longitude)

IsPrefix(s, t) == Len(s) <= Len(t) /\ SubSeq(t, 1, Len(s)) = s

\* C9: the log is append-only: every step leaves the old log a prefix of the
\* new one; a successful submit appends exactly the submitted event, every
\* other call leaves the log as it was.
C9_LogAppendOnly ==
  [][ /\ IsPrefix(ratings_db, ratings_db')
      /\ IF Called("add_rating") /\ response'.status = OK
         THEN ratings_db' = ratings_db \o
                << [toilet_id |-> request'.toilet_id,
                    cleanliness |-> request'.rating.cleanliness,
                    comment |-> request'.rating.comment] >>
         ELSE ratings_db' = ratings_db ]_vars

\* a commented rating was appended to a log that held two events
C9_Witness ==
  /\ request.op = "add_rating"
  /\ response.status = OK
  /\ Len(ratings_db) = 3
  /\ ratings_db[3].comment = Some("clean")
  /\ request.rating.comment = Some("clean")

\* a record with its two derived fields blanked
Fixed(t) == [t EXCEPT !.avg_cleanliness = None, !.rating_count = 0]

\* C10: a record stays in the store for good and only its avg_cleanliness
\* and rating_count ever change, and those only by a successful submit for
\* its own id.
C10_RecordsFrozen ==
  [][ \A i \in 1..Len(toilets_db) :
        /\ i <= Len(toilets_db')
        /\ Fixed(toilets_db'[i]) = Fixed(toilets_db[i])
        /\ toilets_db'[i] # toilets_db[i] =>
             /\ Called("add_rating")
             /\ response'.status = OK
             /\ request'.toilet_id = toilets_db[i].id ]_vars

\* a rating was stored for one of two records, the other has ratings too
C10_Witness ==
  /\ request.op = "add_rating"
  /\ response.status = OK
  /\ Len(toilets_db) = 2
  /\ \E i \in 1..2 :
       /\ toilets_db[i].id # request.toilet_id
       /\ toilets_db[i].rating_count > 0

\* C11: in every state, every event of the log has a cleanliness in 1..5 and
\* the toilet_id of a record that is in the store.
C11_EventsWellFormed ==
  \A k \in 1..Len(ratings_db) :
    /\ ratings_db[k].cleanliness \in 1..5
    /\ ratings_db[k].toilet_id \in Ids(toilets_db)

\* a full log holding both ends of the range, for two different records
C11_Witness ==
  /\ Len(ratings_db) = 3
  /\ \E k, l \in 1..3 :
       /\ ratings_db[k].cleanliness = 1
       /\ ratings_db[l].cleanliness = 5
       /\ ratings_db[k].toilet_id # ratings_db[l].toilet_id

\* C12: create always succeeds, duplicates included: it appends exactly one
\* record, with avg_cleanliness null and rating_count 0, at the end of the
\* store and leaves the records that were there and the log unchanged.
C12_CreateAppendsOne ==
  [][ Called("create_toilet") =>
        /\ response'.status = OK
        /\ Len(toilets_db') = Len(toilets_db) + 1
        /\ SubSeq(toilets_db', 1, Len(toilets_db)) = toilets_db
        /\ LET new == toilets_db'[Len(toilets_db')]
           IN  /\ new.avg_cleanliness = None
               /\ new.rating_count = 0
               /\ new.name = request'.toilet.name
               /\ new.latitude = request'.toilet.latitude
               /\ new.longitude = request'.toilet.longitude
               /\ response'.body = <<new>>
        /\ ratings_db' = ratings_db ]_vars

\* the same body was stored a second time, after the first was rated
C12_Witness ==
  /\ request.op = "create_toilet"
  /\ response.status = OK
  /\ Len(toilets_db) = 2
  /\ toilets_db[1].name = toilets_db[2].name
  /\ toilets_db[1].latitude = toilets_db[2].latitude
  /\ toilets_db[1].longitude = toilets_db[2].longitude
  /\ toilets_db[1].rating_count > 0
  /\ toilets_db[2].rating_count = 0

\* C17: submit tests the cleanliness range before it resolves the record: out
\* of range gives InvalidInput also for an id that no record has, NotFound is
\* given only for a cleanliness in 1..5.
C17_RangeBeforeLookup ==
  request.op = "add_rating" =>
    /\ request.rating.cleanliness \notin 1..5 => response.status = InvalidInput
    /\ response.status = NotFound => request.rating.cleanliness \in 1..5

\* cleanliness 0 for an id that no record has was refused as InvalidInput
C17_Witness ==
  /\ request.op = "add_rating"
  /\ request.rating.cleanliness = 0
  /\ request.toilet_id \notin Ids(toilets_db)
  /\ toilets_db # <<>>
  /\ response.status = InvalidInput

\* C18: in every state the store holds the ids 1..n in insertion order, n
\* the number of creates so far, and the counter is n + 1; get(id) and
\* submit(id, valid cleanliness) succeed exactly for 1 <= id <= n.
C18_IdsAreOneToN ==
  LET n == Len(toilets_db)
  IN  /\ n = num_creates
      /\ \A i \in 1..n : toilets_db[i].id = i
      /\ next_toilet_id = n + 1
      /\ request.op = "get_toilet" =>
           (response.status = OK <=> (1 <= request.toilet_id /\ request.toilet_id <= n))
      /\ (request.op = "add_rating" /\ request.rating.cleanliness \in 1..5) =>
           (response.status = OK <=> (1 <= request.toilet_id /\ request.toilet_id <= n))

\* a rating for id 2 was stored when the store held two records
C18_Witness ==
  /\ request.op = "add_rating"
  /\ request.toilet_id = 2
  /\ response.status = OK
  /\ Len(toilets_db) = 2
  /\ next_toilet_id = 3

\* C19: in every state, for every record, avg_cleanliness is null exactly
\* when rating_count is 0, rating_count is never negative and a non-null
\* avg_cleanliness lies between 1 and 5.
C19_StatsInRange ==
  \A i \in 1..Len(toilets_db) :
    LET R == toilets_db[i]
    IN  /\ R.rating_count >= 0
        /\ R.avg_cleanliness = None <=> R.rating_count = 0
        /\ R.avg_cleanliness # None =>
             /\ R.avg_cleanliness[1][2] > 0
             /\ R.avg_cleanliness[1][2] <= R.avg_cleanliness[1][1]
             /\ R.avg_cleanliness[1][1] <= 5 * R.avg_cleanliness[1][2]

\* one record at the lower end, rated 1 twice, one at the upper end
C19_Witness ==
  /\ Len(toilets_db) = 2
  /\ \E i, j \in 1..2 :
       /\ toilets_db[i].avg_cleanliness = Some(<<1, 1>>)
       /\ toilets_db[i].rating_count = 2
       /\ toilets_db[j].avg_cleanliness = Some(<<5, 1>>)

\* C13: get and list_within are pure reads: they change neither the store,
\* the log nor the id counter, and a get(id) repeated with nothing in between
\* returns what the first returned.
C13_ReadsArePure ==
  [][ /\ (Called("get_toilet") \/ Called("list_toilets")) => store' = store
      /\ (/\ request.op = "get_toilet"
          /\ Called("get_toilet")
          /\ request'.toilet_id = request.toilet_id) => response' = response ]_vars

\* a get returned a rated record from a store of two records
C13_Witness ==
  /\ request.op = "get_toilet"
  /\ response.status = OK
  /\ Len(toilets_db) = 2
  /\ response.body[1].rating_count > 0
  /\ response.body[1] = toilets_db[request.toilet_id]

\* C14: the distance function is symmetric: distance(A, B) = distance(B, A)
\* for all pairs of points, the pairs for which it raises included.
C14_DistanceSymmetric ==
  request.op = "haversine_km swapped" =>
    /\ Len(response.body) = 2
    /\ response.body[1] = response.body[2]

\* both directions computed for two points that differ in latitude and in
\* longitude and are a positive distance apart
C14_Witness ==
  /\ request.op = "haversine_km swapped"
  /\ request.lat1 # request.lat2
  /\ request.lon1 = 90
  /\ request.lon2 = 0
  /\ response.body[1] > 0
  /\ response.body[2] > 0

\* C15: two creates that run concurrently still behave atomically: the two
\* records they create have distinct ids and the id counter ends advanced by
\* 2 (one past the number of records).
C15_ConcurrentCreatesAtomic ==
  AllDone =>
    /\ response["t1"].body[1].id # response["t2"].body[1].id
    /\ \A i, j \in 1..Len(toilets_db) :
         i # j => toilets_db[i].id # toilets_db[j].id
    /\ next_toilet_id = Len(toilets_db) + 1

\* C16: when two valid submits for the same record run concurrently, once
\* both have returned the record's rating_count and avg_cleanliness are the
\* count and the mean of all its events in the log.
C16_ConcurrentSubmitsConsistent ==
  (/\ AllDone
   /\ \A t \in Threads : response[t].status = OK
   /\ request["t1"].toilet_id = request["t2"].toilet_id) =>
    LET R == RecordOf(toilets_db, request["t1"].toilet_id)
        K == EventsOf(ratings_db, R.id)
    IN  /\ R.rating_count = Cardinality(K)
        /\ IsMean(R.avg_cleanliness, SumOver(ratings_db, K), Cardinality(K))

====
